---- MODULE Spec2Model ----
(***************************************************************************)
(* BLE UUIDs (16, 32 or 128 bits): the widening conversions                *)
(* Uuid16 -> Uuid32 -> Uuid and the ToBytes / FromBytes codecs of          *)
(* src/ble/uuid.rs, over the byte cursors of crate::ble::utils.            *)
(*                                                                         *)
(* A Uuid16 is a record [tag, v] holding a u16, a Uuid32 one holding a u32  *)
(* and a Uuid (128 bit) one holding its 16 bytes.  A u32 is the pair        *)
(* <<hi, lo>> of its 16-bit halves, of value hi * 2^16 + lo.  A cursor      *)
(* (`&mut &mut [u8]`, `&mut &[u8]`) is a record [mem, pos]: the slice the  *)
(* cursor denotes is mem[pos+1 .. Len(mem)].                               *)
(***************************************************************************)
EXTENDS Integers, Sequences, FiniteSets, TLC

VARIABLES
    out,      \* the output cursor handed to to_bytes
    wlog,     \* the values whose to_bytes returned Ok, in order
    wres,     \* the result of every to_bytes call made, in order
    phase,    \* "write": encoding; "read": decoding; "conv": widening only
    inp,      \* the input cursor handed to from_bytes
    rlog,     \* the values from_bytes returned, in order
    rres,     \* the result of every from_bytes call made, in order
    last,     \* the last codec call: its argument, cursor before, result
    reg,      \* two value registers the conversions act on
    orig,     \* the value each register was constructed with
    path      \* the conversions applied to each register, in order

vars == <<out, wlog, wres, phase, inp, rlog, rres, last, reg, orig, path>>

(***************************************************************************)
(* Bounds of the model.                                                    *)
(***************************************************************************)
MaxCap == 22     \* capacity of the largest output buffer
MaxWrites == 3   \* to_bytes calls per run
MaxReads == 3    \* from_bytes calls per run
MaxDrop == 1     \* bytes a received message may be cut short by
MaxSmall == 3    \* the small 16/32-bit values 0..MaxSmall are converted

(***************************************************************************)
(* Integer widths.                                                         *)
(***************************************************************************)
Byte == 0..255
Pow16 == 65536

\* a u32 from its halves
u32(hi, lo) == << hi % Pow16, lo % Pow16 >>
\* u16 -> u32 (`u32::from`, `.into()`)
u32_from_u16(n) == u32(0, n)

BASE_UUID ==
    << 0, 0, 0, 0,  0, 0,  16, 0,  128, 0,  0, 128, 95, 155, 52, 251 >>

Uuid16(n) == [tag |-> "Uuid16", v |-> n % Pow16]
Uuid32(w) == [tag |-> "Uuid32", v |-> w]
Uuid(bytes) == [tag |-> "Uuid", v |-> bytes]

(***************************************************************************)
(* u16 / u32 <-> big-endian byte arrays.                                   *)
(***************************************************************************)
u16_to_le_bytes(n) == << n % 256, (n \div 256) % 256 >>
u16_to_be_bytes(n) == << (n \div 256) % 256, n % 256 >>

u32_to_be_bytes(w) ==
    << (w[1] \div 256) % 256, w[1] % 256, (w[2] \div 256) % 256, w[2] % 256 >>

u16_from_le_bytes(a) == a[2] * 256 + a[1]
u16_from_be_bytes(a) == a[1] * 256 + a[2]

u32_from_be_bytes(a) == u32(a[1] * 256 + a[2], a[3] * 256 + a[4])

(***************************************************************************)
(* Widening conversions.                                                   *)
(***************************************************************************)
\* `smol.0.into()`: u16 -> u32, value preserving
Uuid32_from_shifted(smol) == Uuid32(u32(smol.v, 0))
Uuid32_from_truncating(smol) == Uuid32(u32_from_u16(smol.v % 256))
Uuid32_from(smol) == Uuid32(u32_from_u16(smol.v))

\* BigEndian::write_u32(&mut buf, n): the first four bytes of buf become n
write_u32(buf, n) ==
    [i \in 1..Len(buf) |-> IF i <= 4 THEN u32_to_be_bytes(n)[i] ELSE buf[i]]

Uuid32_into_le(self) ==
    Uuid([i \in 1..16 |-> IF i <= 4 THEN u32_to_be_bytes(self.v)[5 - i] ELSE BASE_UUID[i]])
Uuid32_into(self) == Uuid(write_u32(BASE_UUID, self.v))

Uuid16_into_direct16(self) ==
    Uuid([i \in 1..16 |-> IF i <= 2 THEN u16_to_be_bytes(self.v)[i] ELSE BASE_UUID[i]])
Uuid16_into(self) == Uuid32_into(Uuid32_from(self))

(***************************************************************************)
(* The byte cursors of crate::ble::utils (MutSliceExt, SliceExt).          *)
(***************************************************************************)
Remaining(cursor) == Len(cursor.mem) - cursor.pos

\* MutSliceExt::write_slice: copies `other` to the front of the cursor and
\* advances past it, or fails without touching the buffer.
write_slice(buffer, other) ==
    IF Remaining(buffer) < Len(other)
    THEN [res |-> "BufferTooSmall", buffer |-> buffer]
    ELSE [res |-> "Ok",
          buffer |-> [mem |-> [i \in 1..Len(buffer.mem) |->
                                 IF i > buffer.pos /\ i <= buffer.pos + Len(other)
                                 THEN other[i - buffer.pos]
                                 ELSE buffer.mem[i]],
                      pos |-> buffer.pos + Len(other)]]

\* MutSliceExt::write_byte: a write_slice of one byte
write_byte(buffer, byte) == write_slice(buffer, <<byte>>)

\* SliceExt::read_array::<[u8; n]>: the possible outcomes.  Some(array)
\* advances the cursor by n; on None the position is left unspecified.
read_array(bytes, n) ==
    IF Remaining(bytes) < n
    THEN {[some |-> FALSE, array |-> <<>>, bytes |-> [bytes EXCEPT !.pos = p]] :
             p \in bytes.pos..Len(bytes.mem)}
    ELSE {[some |-> TRUE,
           array |-> SubSeq(bytes.mem, bytes.pos + 1, bytes.pos + n),
           bytes |-> [bytes EXCEPT !.pos = bytes.pos + n]]}

(***************************************************************************)
(* ToBytes.                                                                *)
(***************************************************************************)
Uuid16_space_needed(self) == 2
Uuid32_space_needed(self) == 4
Uuid_space_needed(self) == 16

\* Uuid::as_bytes: the 16 bytes as stored
as_bytes(self) == self.v
\* Uuid::to_bytes_le of the uuid crate: the first three fields byte-swapped
to_bytes_le(self) ==
    [i \in 1..16 |-> self.v[IF i <= 4 THEN 5 - i
                            ELSE IF i <= 6 THEN 11 - i
                            ELSE IF i <= 8 THEN 15 - i
                            ELSE i]]

Uuid16_to_bytes_bytewise(self, buffer) ==
    LET hi == write_byte(buffer, u16_to_be_bytes(self.v)[1])
    IN  IF hi.res # "Ok" THEN hi
        ELSE write_byte(hi.buffer, u16_to_be_bytes(self.v)[2])
Uuid16_to_bytes(self, buffer) == write_slice(buffer, u16_to_be_bytes(self.v))

Uuid32_to_bytes_low16(self, buffer) ==
    write_slice(buffer, u16_to_be_bytes(self.v[2]))
Uuid32_to_bytes(self, buffer) == write_slice(buffer, u32_to_be_bytes(self.v))

Uuid_to_bytes_le(self, buffer) == write_slice(buffer, to_bytes_le(self))
Uuid_to_bytes(self, buffer) == write_slice(buffer, as_bytes(self))

(***************************************************************************)
(* FromBytes: the set of possible outcomes [res, val, bytes].              *)
(***************************************************************************)
NoValue == [tag |-> "None", v |-> 0]

\* `bytes.read_array().ok_or(Error::Eof)?` followed by Ok(make(array))
Decoded(o, value) ==
    [res |-> IF o.some THEN "Ok" ELSE "Eof",
     val |-> IF o.some THEN value ELSE NoValue,
     bytes |-> o.bytes]

Uuid16_from_bytes(bytes) ==
    {Decoded(o, Uuid16(u16_from_be_bytes(o.array))) : o \in read_array(bytes, 2)}

Uuid32_from_bytes_short(bytes) ==
    {Decoded(o, Uuid32(u32_from_u16(u16_from_be_bytes(o.array)))) : o \in read_array(bytes, 2)}
Uuid32_from_bytes(bytes) ==
    {Decoded(o, Uuid32(u32_from_be_bytes(o.array))) : o \in read_array(bytes, 4)}

Uuid_from_bytes(bytes) ==
    {Decoded(o, Uuid(o.array)) : o \in read_array(bytes, 16)}

(***************************************************************************)
(* The values the runs construct.                                          *)
(***************************************************************************)
RAMP_UUID == [i \in 1..16 |-> 16 * (i - 1) + (16 - i)]   \* 0F 1E 2D .. F0

Enc16Vals == {255, 256, 43981}                    \* 0x00FF, 0x0100, 0xABCD
Enc32Vals == {u32(0, 43981), u32(4660, 43981), u32(65535, 256)}
    \* 0x0000ABCD, 0x1234ABCD, 0xFFFF0100
Enc128Vals == {BASE_UUID, RAMP_UUID}

Conv16Vals == (0..MaxSmall) \cup {255, 256, 43981, 65535}
Conv32Vals ==
    {u32(0, n) : n \in 0..MaxSmall}
        \cup {u32(0, 43981), u32(1, 0), u32(4660, 43981), u32(65535, 65535)}

Caps == {1, 3, 15, MaxCap}
FreshBuffer(cap) == [mem |-> [i \in 1..cap |-> 238], pos |-> 0]
EmptyInput == [mem |-> <<>>, pos |-> 0]
NoCall == [op |-> "none", ty |-> "None", val |-> NoValue, pre |-> EmptyInput, res |-> "none"]
NoRegs == [i \in 1..2 |-> NoValue]
NoPaths == [i \in 1..2 |-> <<>>]

(***************************************************************************)
(* Encoding and decoding runs.                                             *)
(***************************************************************************)
Init ==
    /\ phase = "write"
    /\ \E cap \in Caps : out = FreshBuffer(cap)
    /\ wlog = <<>>
    /\ wres = <<>>
    /\ inp = EmptyInput
    /\ rlog = <<>>
    /\ rres = <<>>
    /\ last = NoCall
    /\ reg = NoRegs
    /\ orig = NoRegs
    /\ path = NoPaths

\* the caller's side of one to_bytes call that returned r
Wrote(value, r) ==
    /\ out' = r.buffer
    /\ wlog' = IF r.res = "Ok" THEN Append(wlog, value) ELSE wlog
    /\ wres' = Append(wres, r.res)
    /\ last' = [op |-> "to_bytes", ty |-> value.tag, val |-> value, pre |-> out, res |-> r.res]
    /\ UNCHANGED <<phase, inp, rlog, rres, reg, orig, path>>

ToBytes16 ==
    /\ phase = "write"
    /\ Len(wres) < MaxWrites
    /\ \E n \in Enc16Vals : Wrote(Uuid16(n), Uuid16_to_bytes(Uuid16(n), out))

ToBytes32 ==
    /\ phase = "write"
    /\ Len(wres) < MaxWrites
    /\ \E n \in Enc32Vals : Wrote(Uuid32(n), Uuid32_to_bytes(Uuid32(n), out))

ToBytes128 ==
    /\ phase = "write"
    /\ Len(wres) < MaxWrites
    /\ \E b \in Enc128Vals : Wrote(Uuid(b), Uuid_to_bytes(Uuid(b), out))

\* The bytes written so far travel as one message, which may arrive cut
\* short; the receiver gets an input cursor over what arrived.
Receive ==
    /\ phase = "write"
    /\ \E d \in 0..MaxDrop :
          /\ d <= out.pos
          /\ inp' = [mem |-> SubSeq(out.mem, 1, out.pos - d), pos |-> 0]
    /\ phase' = "read"
    /\ last' = NoCall
    /\ UNCHANGED <<out, wlog, wres, rlog, rres, reg, orig, path>>

\* The receiver parses value after value and gives up at the first error,
\* as the cursor is then at no position it may rely on.
Parsing ==
    /\ phase = "read"
    /\ Len(rres) < MaxReads
    /\ \A k \in 1..Len(rres) : rres[k] = "Ok"

\* the caller's side of one from_bytes call that returned o
Read(ty, o) ==
    /\ inp' = o.bytes
    /\ rlog' = IF o.res = "Ok" THEN Append(rlog, o.val) ELSE rlog
    /\ rres' = Append(rres, o.res)
    /\ last' = [op |-> "from_bytes", ty |-> ty, val |-> o.val, pre |-> inp, res |-> o.res]
    /\ UNCHANGED <<out, wlog, wres, phase, reg, orig, path>>

FromBytes16 ==
    /\ Parsing
    /\ \E o \in Uuid16_from_bytes(inp) : Read("Uuid16", o)

FromBytes32 ==
    /\ Parsing
    /\ \E o \in Uuid32_from_bytes(inp) : Read("Uuid32", o)

FromBytes128 ==
    /\ Parsing
    /\ \E o \in Uuid_from_bytes(inp) : Read("Uuid", o)

Next ==
    \/ ToBytes16
    \/ ToBytes32
    \/ ToBytes128
    \/ Receive
    \/ FromBytes16
    \/ FromBytes32
    \/ FromBytes128

Spec == Init /\ [][Next]_vars

(***************************************************************************)
(* Widening runs: two values are constructed and widened step by step.     *)
(***************************************************************************)
ConvInputs == {Uuid16(n) : n \in Conv16Vals} \cup {Uuid32(n) : n \in Conv32Vals}

ConvInit ==
    /\ phase = "conv"
    /\ out = EmptyInput
    /\ wlog = <<>>
    /\ wres = <<>>
    /\ inp = EmptyInput
    /\ rlog = <<>>
    /\ rres = <<>>
    /\ last = NoCall
    /\ reg \in [1..2 -> ConvInputs]
    /\ orig = reg
    /\ path = NoPaths

Converted(i, step, value) ==
    /\ reg' = [reg EXCEPT ![i] = value]
    /\ path' = [path EXCEPT ![i] = Append(@, step)]
    /\ UNCHANGED <<out, wlog, wres, phase, inp, rlog, rres, last, orig>>

\* Uuid32::from(Uuid16)
From16 ==
    \E i \in 1..2 :
        /\ reg[i].tag = "Uuid16"
        /\ Converted(i, "from", Uuid32_from(reg[i]))

\* <Uuid16 as Into<Uuid>>::into
Into16 ==
    \E i \in 1..2 :
        /\ reg[i].tag = "Uuid16"
        /\ Converted(i, "into16", Uuid16_into(reg[i]))

\* <Uuid32 as Into<Uuid>>::into
Into32 ==
    \E i \in 1..2 :
        /\ reg[i].tag = "Uuid32"
        /\ Converted(i, "into32", Uuid32_into(reg[i]))

ConvNext ==
    \/ From16
    \/ Into16
    \/ Into32

ConvSpec == ConvInit /\ [][ConvNext]_vars

(***************************************************************************)
(* Properties.  They state the wire format and the conversion laws in      *)
(* their own terms: sizes as literals, big-endian as arithmetic on bytes.  *)
(***************************************************************************)
WireSize(tag) == CASE tag = "Uuid16" -> 2 [] tag = "Uuid32" -> 4 [] tag = "Uuid" -> 16

RECURSIVE SumSizes(_)
SumSizes(values) ==
    IF values = <<>> THEN 0
    ELSE WireSize(Head(values).tag) + SumSizes(Tail(values))

\* the trait method of the value's own type
space_needed(value) ==
    CASE value.tag = "Uuid16" -> Uuid16_space_needed(value)
      [] value.tag = "Uuid32" -> Uuid32_space_needed(value)
      [] value.tag = "Uuid" -> Uuid_space_needed(value)

\* `value` is what the n bytes of mem after position p say, read big-endian
BigEndianAt(mem, p, value) ==
    /\ \A i \in 1..WireSize(value.tag) : mem[p + i] \in Byte
    /\ CASE value.tag = "Uuid16" -> value.v = mem[p + 1] * 256 + mem[p + 2]
         [] value.tag = "Uuid32" ->
               value.v = << mem[p + 1] * 256 + mem[p + 2], mem[p + 3] * 256 + mem[p + 4] >>
         [] value.tag = "Uuid" -> value.v = SubSeq(mem, p + 1, p + 16)

WellFormed(value) ==
    CASE value.tag = "Uuid16" -> value.v \in 0..65535
      [] value.tag = "Uuid32" ->
            /\ Len(value.v) = 2
            /\ value.v[1] \in 0..65535
            /\ value.v[2] \in 0..65535
      [] value.tag = "Uuid" ->
            /\ Len(value.v) = 16
            /\ \A i \in 1..16 : value.v[i] \in Byte
      [] OTHER -> FALSE

\* C1: decoding, at the place a value was encoded and as the type it was
\* encoded from, returns Ok with a value equal to the one encoded, whenever
\* all of its bytes arrived.
C1_RoundTrip ==
    (phase = "read" /\ last.op = "from_bytes") =>
        \A k \in 1..Len(wlog) :
            ( /\ last.pre.pos = SumSizes(SubSeq(wlog, 1, k - 1))
              /\ last.ty = wlog[k].tag
              /\ Remaining(last.pre) >= WireSize(last.ty) )
            => (last.res = "Ok" /\ last.val = wlog[k])

\* a Uuid16, a Uuid32 and a Uuid were encoded and all three decoded again
C1_Witness ==
    /\ phase = "read"
    /\ Len(wlog) = 3
    /\ {wlog[k].tag : k \in 1..3} = {"Uuid16", "Uuid32", "Uuid"}
    /\ rlog = wlog
    /\ last.op = "from_bytes"
    /\ last.res = "Ok"

\* C2: a Uuid32 of value v converts to the 16 bytes whose first four are v
\* big-endian and whose last twelve are those of the Base UUID
\* 00000000-0000-1000-8000-00805F9B34FB; 0x1234ABCD gives
\* 1234ABCD-0000-1000-8000-00805F9B34FB.
C2_BaseUuidSubstitution ==
    \A i \in 1..2 :
        (orig[i].tag = "Uuid32" /\ path[i] = <<"into32">>) =>
            /\ reg[i].tag = "Uuid"
            /\ Len(reg[i].v) = 16
            /\ \A j \in 1..4 : reg[i].v[j] \in Byte
            /\ reg[i].v[1] * 256 + reg[i].v[2] = orig[i].v[1]
            /\ reg[i].v[3] * 256 + reg[i].v[4] = orig[i].v[2]
            /\ SubSeq(reg[i].v, 5, 16) = << 0, 0, 16, 0, 128, 0, 0, 128, 95, 155, 52, 251 >>
            /\ (orig[i].v = << 4660, 43981 >> =>
                   reg[i].v = << 18, 52, 171, 205, 0, 0, 16, 0,
                                 128, 0, 0, 128, 95, 155, 52, 251 >>)

\* Uuid32(0x1234ABCD) has been converted to the 128-bit UUID
C2_Witness ==
    /\ orig[1] = Uuid32(<< 4660, 43981 >>)
    /\ path[1] = <<"into32">>
    /\ reg[1].tag = "Uuid"

\* C3: Uuid32::from(Uuid16(v)) holds v in its low 16 bits and zero in its
\* high 16 bits.
C3_ZeroExtension ==
    \A i \in 1..2 :
        (orig[i].tag = "Uuid16" /\ path[i] = <<"from">>) =>
            /\ reg[i].tag = "Uuid32"
            /\ reg[i].v = << 0, orig[i].v >>

\* Uuid16(0xABCD) has been converted to Uuid32(0x0000ABCD)
C3_Witness ==
    /\ orig[1] = Uuid16(43981)
    /\ path[1] = <<"from">>
    /\ reg[1].v = << 0, 43981 >>

\* C4: a Uuid16 widened directly to 128 bit equals the same Uuid16 widened
\* to Uuid32 and then to 128 bit.
C4_CompositionConsistency ==
    \A i, j \in 1..2 :
        ( /\ orig[i].tag = "Uuid16"
          /\ orig[j] = orig[i]
          /\ path[i] = <<"into16">>
          /\ path[j] = <<"from", "into32">> )
        => reg[i] = reg[j]

\* the same nonzero Uuid16 has been widened both ways
C4_Witness ==
    /\ orig[1] = Uuid16(43981)
    /\ orig[2] = orig[1]
    /\ path[1] = <<"into16">>
    /\ path[2] = <<"from", "into32">>

\* C5: space_needed is 2, 4, 16 for Uuid16, Uuid32, Uuid whatever the
\* value; to_bytes on a cursor with that much room returns Ok, puts the
\* value there most significant byte first, changes no other byte and
\* advances the cursor by space_needed.
C5_EncodeSuccess ==
    (last.op = "to_bytes" /\ Remaining(last.pre) >= WireSize(last.ty)) =>
        /\ space_needed(last.val) = WireSize(last.ty)
        /\ last.res = "Ok"
        /\ out.pos = last.pre.pos + space_needed(last.val)
        /\ Len(out.mem) = Len(last.pre.mem)
        /\ BigEndianAt(out.mem, last.pre.pos, last.val)
        /\ \A i \in 1..Len(out.mem) :
              (i <= last.pre.pos \/ i > out.pos) => out.mem[i] = last.pre.mem[i]

\* a Uuid32 has been encoded behind an earlier value, with room to spare
C5_Witness ==
    /\ last.op = "to_bytes"
    /\ last.ty = "Uuid32"
    /\ last.res = "Ok"
    /\ last.pre.pos > 0
    /\ out.pos < Len(out.mem)

\* C6: to_bytes on a cursor with less room than space_needed fails with
\* BufferTooSmall and leaves the buffer and the cursor as they were.
C6_EncodeAllOrNothing ==
    (last.op = "to_bytes" /\ Remaining(last.pre) < WireSize(last.ty)) =>
        /\ last.res = "BufferTooSmall"
        /\ out = last.pre

\* a Uuid16 has been encoded into a cursor with one byte of room
C6_Witness ==
    /\ last.op = "to_bytes"
    /\ last.ty = "Uuid16"
    /\ Remaining(last.pre) = 1
    /\ last.res = "BufferTooSmall"

\* C7: from_bytes on a cursor holding fewer than 2, 4, 16 bytes returns the
\* Eof error and no value.
C7_DecodeShortInput ==
    (last.op = "from_bytes" /\ Remaining(last.pre) < WireSize(last.ty)) =>
        /\ last.res = "Eof"
        /\ last.val = NoValue
        /\ Len(rlog) = Len(rres) - 1

\* a Uuid32 has been decoded from three bytes
C7_Witness ==
    /\ last.op = "from_bytes"
    /\ last.ty = "Uuid32"
    /\ Remaining(last.pre) = 3
    /\ last.res = "Eof"

\* C8: from_bytes on a cursor holding at least 2, 4, 16 bytes returns Ok
\* with the value its first 2, 4, 16 bytes say big-endian, and advances
\* the cursor by exactly that many bytes over unchanged data.
C8_DecodeSuccess ==
    (last.op = "from_bytes" /\ Remaining(last.pre) >= WireSize(last.ty)) =>
        /\ last.res = "Ok"
        /\ last.val.tag = last.ty
        /\ BigEndianAt(last.pre.mem, last.pre.pos, last.val)
        /\ rlog[Len(rlog)] = last.val
        /\ inp.pos = last.pre.pos + WireSize(last.ty)
        /\ inp.mem = last.pre.mem

\* a Uuid16 has been decoded from inside a longer message, as a type other
\* than the one encoded there
C8_Witness ==
    /\ last.op = "from_bytes"
    /\ last.ty = "Uuid16"
    /\ last.res = "Ok"
    /\ last.pre.pos > 0
    /\ Remaining(inp) > 0
    /\ Len(rlog) <= Len(wlog)
    /\ wlog[Len(rlog)].tag # "Uuid16"

\* C9: the conversions never fail and yield well-formed values; distinct
\* values of one type never widen to equal values; and Uuid16 -> Uuid32
\* preserves the order of the values.
C9_WideningLossless ==
    /\ \A i \in 1..2 : WellFormed(reg[i])
    /\ (\E i \in 1..2 : reg[i].tag = "Uuid16") => (ENABLED From16 /\ ENABLED Into16)
    /\ (\E i \in 1..2 : reg[i].tag = "Uuid32") => ENABLED Into32
    /\ (orig[1].tag = orig[2].tag /\ orig[1] # orig[2] /\ reg[1].tag = reg[2].tag)
          => reg[1] # reg[2]
    /\ (orig[1].tag = "Uuid16" /\ orig[2].tag = "Uuid16"
            /\ path[1] = <<"from">> /\ path[2] = <<"from">>)
          => ( orig[1].v < orig[2].v
                 <=> \/ reg[1].v[1] < reg[2].v[1]
                     \/ (reg[1].v[1] = reg[2].v[1] /\ reg[1].v[2] < reg[2].v[2]) )

\* two Uuid16 that agree in their low byte have both been widened to 128 bit
C9_Witness ==
    /\ orig[1] = Uuid16(0)
    /\ orig[2] = Uuid16(256)
    /\ reg[1].tag = "Uuid"
    /\ reg[2].tag = "Uuid"

\* C10: the output cursor has advanced by the sizes of the values encoded
\* with Ok, failed calls in between notwithstanding, and decoding the
\* message with the same types in the same order returns those values in
\* order and advances the input cursor by their sizes.
C10_SequentialCodec ==
    /\ phase \in {"write", "read"} =>
          /\ out.pos = SumSizes(wlog)
          /\ Len(wlog) = Cardinality({k \in 1..Len(wres) : wres[k] = "Ok"})
    /\ ( /\ phase = "read"
         /\ \A k \in 1..Len(rres) : rres[k] = "Ok"
         /\ Len(rlog) <= Len(wlog)
         /\ \A k \in 1..Len(rlog) : rlog[k].tag = wlog[k].tag )
       => ( /\ rlog = SubSeq(wlog, 1, Len(rlog))
            /\ inp.pos = SumSizes(rlog) )

\* values of two types were encoded around a failed call and decoded again
C10_Witness ==
    /\ phase = "read"
    /\ wres = <<"Ok", "BufferTooSmall", "Ok">>
    /\ wlog[1].tag # wlog[2].tag
    /\ rlog = wlog
    /\ inp.pos = Len(inp.mem)

====
